---- MODULE Spec2Model ----
(***************************************************************************)
(* CleanConnect: phone-number cleaning and duplicate removal for an        *)
(* uploaded contact sheet.                                                 *)
(*                                                                         *)
(* The model follows the latest revision of lib/excelProcessor.ts that is  *)
(* present (src/unnamed/part_000: multi-number cleanPhoneNumber,           *)
(* originalData) and the latest revision of pages/Index.tsx                *)
(* (src/unnamed/part_001), plus the upload button of FileUploadSection.    *)
(*                                                                         *)
(* A JavaScript string is a sequence of one-character strings.  A sheet    *)
(* row is a function from the column names present in that row to the      *)
(* cell values (sheet_to_json leaves out the keys of empty cells).         *)
(***************************************************************************)
EXTENDS Integers, Sequences, FiniteSets, TLC

VARIABLES
    selectedFile,       \* FileUploadSection: the file chosen by the user
    isProcessing,       \* Index: useState(false)
    reader,             \* FileReader of the pending processExcelFile call
    runs,               \* processExcelFile calls started and not yet settled
    settled,            \* what the last await processExcelFile(file) gave
    previous,           \* what the await before that one gave
    contacts,           \* Index: useState<Contact[]>([])
    originalContacts,   \* Index: useState<Contact[]>([])
    stats,              \* Index: useState({0, 0, 0})
    toast,              \* last toast shown
    uniquePhones,       \* removeDuplicates: content of its Set when it returned
    globalUniquePhones, \* the registry resetGlobalUniquePhones() clears
    phoneType,          \* typeof the argument of a direct cleanPhoneNumber call
    phone,              \* that argument's characters, when it is a string
    cleaned             \* its return value, once called

vars == <<selectedFile, isProcessing, reader, runs, settled, previous, contacts,
          originalContacts, stats, toast, uniquePhones, globalUniquePhones,
          phoneType, phone, cleaned>>

appVars == <<selectedFile, isProcessing, reader, runs, settled, previous, contacts,
             originalContacts, stats, toast, uniquePhones, globalUniquePhones>>

cleanVars == <<phoneType, phone, cleaned>>

----------------------------------------------------------------------------
(* Characters and JavaScript string primitives                             *)

DigitChars == {"0", "1", "2", "3", "4", "5", "6", "7", "8", "9"}

WhiteSpace == {" "}

Delimiters == {",", "/"}

\* /\D/ matches every character that is not a decimal digit
IsNonDigit(c) == c \notin DigitChars

IsDigit(c) == ~IsNonDigit(c)

IsSpace(c) == c \in WhiteSpace

startsWith(s, p) == Len(s) >= Len(p) /\ SubSeq(s, 1, Len(p)) = p

substring(s, n) == SubSeq(s, n + 1, Len(s))

RECURSIVE trimStart(_)
trimStart(s) == IF s # <<>> /\ IsSpace(Head(s)) THEN trimStart(Tail(s)) ELSE s

RECURSIVE trimEnd(_)
trimEnd(s) ==
    IF s # <<>> /\ IsSpace(s[Len(s)]) THEN trimEnd(SubSeq(s, 1, Len(s) - 1)) ELSE s

trim(s) == trimEnd(trimStart(s))

RECURSIVE splitAcc(_, _, _, _)
splitAcc(s, seps, cur, acc) ==
    IF s = <<>> THEN Append(acc, cur)
    ELSE IF Head(s) \in seps
         THEN splitAcc(Tail(s), seps, <<>>, Append(acc, cur))
         ELSE splitAcc(Tail(s), seps, Append(cur, Head(s)), acc)

\* String.prototype.split on a one-character class
split(s, seps) == splitAcc(s, seps, <<>>, <<>>)

RECURSIVE join(_, _)
join(parts, sep) ==
    IF parts = <<>> THEN <<>>
    ELSE IF Len(parts) = 1 THEN parts[1]
    ELSE parts[1] \o sep \o join(Tail(parts), sep)

NonEmpty(s) == Len(s) > 0

\* mutant: an array push in place of Set.prototype.add
setAddAlways(set, x) == Append(set, x)

\* Set.prototype.add on an insertion-ordered Set
setAdd(set, x) == IF \E i \in 1..Len(set) : set[i] = x THEN set ELSE Append(set, x)

RECURSIVE setAddAll(_, _)
setAddAll(set, xs) ==
    IF xs = <<>> THEN set ELSE setAddAll(setAdd(set, Head(xs)), Tail(xs))

----------------------------------------------------------------------------
(* cleanPhoneNumber                                                        *)

MinValidLength == 7

MaxValidLength == 11

CountryCodeMinLength == 8

InternationalPrefix == <<"0", "0">>

CountryCode == <<"8", "5", "5">>

TrunkPrefix == <<"0">>

Terminator == <<";">>

removeNonDigits(number) == SelectSeq(number, IsDigit)

stripInternationalPrefix(n) ==
    IF startsWith(n, InternationalPrefix) THEN substring(n, 2) ELSE n

stripCountryCode(n) ==
    IF Len(n) > CountryCodeMinLength /\ startsWith(n, CountryCode)
    THEN substring(n, 3) ELSE n

\* mutant: the leading 0 is never added
addTrunkPrefixNever(n) == n

addTrunkPrefix(n) ==
    IF Len(n) > 0 /\ ~startsWith(n, TrunkPrefix) THEN TrunkPrefix \o n ELSE n

\* mutant: the upper limit taken as exclusive
isValidLengthExclusive(n) == Len(n) >= MinValidLength /\ Len(n) < MaxValidLength

isValidLength(n) == Len(n) >= MinValidLength /\ Len(n) <= MaxValidLength

\* mutant: the country code is looked for before the leading 00 is removed
cleanNumberCountryCodeFirst(number) ==
    LET cleanedNumber ==
            addTrunkPrefix(stripInternationalPrefix(stripCountryCode(
                removeNonDigits(number))))
    IN  IF isValidLength(cleanedNumber) THEN cleanedNumber ELSE <<>>

\* the callback of phoneNumbers.map
cleanNumber(number) ==
    LET cleanedNumber ==
            addTrunkPrefix(stripCountryCode(stripInternationalPrefix(
                removeNonDigits(number))))
    IN  IF isValidLength(cleanedNumber) THEN cleanedNumber ELSE <<>>

phoneNumbersOf(p) ==
    LET pieces  == split(p, Delimiters)
        trimmed == [i \in 1..Len(pieces) |-> trim(pieces[i])]
    IN  SelectSeq(trimmed, NonEmpty)

cleanPhoneNumber(p) ==
    IF p = <<>> THEN <<>>
    ELSE LET phoneNumbers   == phoneNumbersOf(p)
             mapped         == [i \in 1..Len(phoneNumbers) |->
                                    cleanNumber(phoneNumbers[i])]
             cleanedNumbers == SelectSeq(mapped, NonEmpty)
             uniqueNumbers  == setAddAll(<<>>, cleanedNumbers)
         IN  join([i \in 1..Len(uniqueNumbers) |-> uniqueNumbers[i] \o Terminator],
                  <<" ">>)

\* cleanPhoneNumber on any value: a value that is no string is returned as ''
cleanPhoneNumberCall(type, text) ==
    IF type # "string" THEN <<>> ELSE cleanPhoneNumber(text)

----------------------------------------------------------------------------
(* removeDuplicates                                                        *)

\* the canonical numbers written in a cleaned Phone field
numbersOf(cleanedPhone) ==
    LET tokens   == split(cleanedPhone, {" "})
        stripped == [i \in 1..Len(tokens) |->
                        SelectSeq(tokens[i], LAMBDA c : c \notin {";"})]
    IN  {stripped[i] : i \in {k \in 1..Len(tokens) : stripped[k] # <<>>}}

\* mutant: the Set is kept at module level and not created per call
staleUniquePhones == uniquePhones

\* new Set<string>()
newUniquePhones == {}

\* mutant: a record is dropped as soon as one of its numbers was seen before
removeDuplicatesStepAnyOverlap(st, contact) ==
    IF contact.Phone = <<>>
    THEN [st EXCEPT !.result = Append(@, contact)]
    ELSE IF \A seen \in st.uniquePhones :
                numbersOf(seen) \cap numbersOf(contact.Phone) = {}
         THEN [uniquePhones |-> st.uniquePhones \cup {contact.Phone},
               result       |-> Append(st.result, contact)]
         ELSE st

\* mutant: the Phone is never added to the Set
removeDuplicatesStepNoAdd(st, contact) ==
    IF contact.Phone = <<>>
    THEN [st EXCEPT !.result = Append(@, contact)]
    ELSE IF contact.Phone \notin st.uniquePhones
         THEN [st EXCEPT !.result = Append(@, contact)]
         ELSE st

\* mutant: no special case for an empty Phone
removeDuplicatesStepNoSkip(st, contact) ==
    IF contact.Phone \notin st.uniquePhones
    THEN [uniquePhones |-> st.uniquePhones \cup {contact.Phone},
          result       |-> Append(st.result, contact)]
    ELSE st

\* one iteration of the for loop over data
removeDuplicatesStep(st, contact) ==
    IF contact.Phone = <<>>
    THEN [st EXCEPT !.result = Append(@, contact)]
    ELSE IF contact.Phone \notin st.uniquePhones
         THEN [uniquePhones |-> st.uniquePhones \cup {contact.Phone},
               result       |-> Append(st.result, contact)]
         ELSE st

RECURSIVE removeDuplicatesLoop(_, _)
removeDuplicatesLoop(data, st) ==
    IF data = <<>> THEN st
    ELSE removeDuplicatesLoop(Tail(data), removeDuplicatesStep(st, Head(data)))

\* the returned array, together with the Set as the loop left it
removeDuplicates(data) ==
    removeDuplicatesLoop(data, [uniquePhones |-> newUniquePhones, result |-> <<>>])

----------------------------------------------------------------------------
(* processExcelFile                                                        *)

\* mutant: Phone left out of the required columns
RequiredColumnsNoPhone == <<"CID", "AID", "Name">>

RequiredColumns == <<"CID", "AID", "Name", "Phone">>

NoError == [kind |-> "none", column |-> ""]

\* Required column "<column>" is missing from the Excel file.
MissingColumnError(column) == [kind |-> "missingColumn", column |-> column]

\* Failed to process the Excel file. Please ensure it is a valid Excel file.
ProcessFailedError == [kind |-> "processFailed", column |-> ""]

\* Error reading the file. Please try again.
ReadError == [kind |-> "readError", column |-> ""]

NoStatistics == [totalProcessed |-> 0, duplicatesRemoved |-> 0, invalidPhones |-> 0]

Rejected(error, registry) ==
    [state |-> "rejected", error |-> error, cleanedData |-> <<>>,
     originalData |-> <<>>, statistics |-> NoStatistics, uniquePhones |-> registry]

\* the required columns that are no key of the first row, in checking order
missingColumns(firstRow) ==
    SelectSeq(RequiredColumns, LAMBDA column : column \notin DOMAIN firstRow)

\* contact.Phone?.toString() || ''
phoneToString(contact) ==
    IF "Phone" \in DOMAIN contact THEN contact["Phone"] ELSE <<>>

\* { ...contact, Phone: cleanedPhone }
withCleanedPhone(contact) ==
    [c \in DOMAIN contact \cup {"Phone"} |->
        IF c = "Phone" THEN cleanPhoneNumber(phoneToString(contact)) ELSE contact[c]]

\* mutant: the counter goes up for a phone that is not empty
countInvalidInverted(cleanedContacts) ==
    Cardinality({i \in 1..Len(cleanedContacts) : cleanedContacts[i].Phone # <<>>})

countInvalid(cleanedContacts) ==
    Cardinality({i \in 1..Len(cleanedContacts) : cleanedContacts[i].Phone = <<>>})

\* mutant: the row count taken after the duplicates were removed
statisticsOfKept(originalCount, keptCount, invalidPhones) ==
    [totalProcessed    |-> keptCount,
     duplicatesRemoved |-> originalCount - keptCount,
     invalidPhones     |-> invalidPhones]

\* the statistics object passed to resolve
statisticsOf(originalCount, keptCount, invalidPhones) ==
    [totalProcessed    |-> originalCount,
     duplicatesRemoved |-> originalCount - keptCount,
     invalidPhones     |-> invalidPhones]

\* mutant: the copy is taken from the rows after their phones were cleaned
jsonCopyCleaned(jsonData) ==
    [i \in 1..Len(jsonData) |-> withCleanedPhone(jsonData[i])]

\* JSON.parse(JSON.stringify(jsonData)): new rows with the same keys and the
\* same string and number values
jsonCopy(jsonData) ==
    [i \in 1..Len(jsonData) |-> [c \in DOMAIN jsonData[i] |-> jsonData[i][c]]]

\* reader.onload of processExcelFile: what the promise settles with
processExcelFile(file) ==
    IF file.corrupt THEN Rejected(ProcessFailedError, uniquePhones)
    ELSE LET jsonData == file.rows
             missing  == IF Len(jsonData) > 0
                         THEN missingColumns(jsonData[1]) ELSE <<>>
         IN  IF missing # <<>>
             THEN Rejected(MissingColumnError(Head(missing)), uniquePhones)
             ELSE LET contactsWithCleanedPhones ==
                          [i \in 1..Len(jsonData) |-> withCleanedPhone(jsonData[i])]
                      dedup == removeDuplicates(contactsWithCleanedPhones)
                  IN  [state        |-> "resolved",
                       error        |-> NoError,
                       cleanedData  |-> dedup.result,
                       originalData |-> jsonCopy(jsonData),
                       statistics   |-> statisticsOf(Len(contactsWithCleanedPhones),
                                                     Len(dedup.result),
                                                     countInvalid(contactsWithCleanedPhones)),
                       uniquePhones |-> dedup.uniquePhones]

----------------------------------------------------------------------------
(* Index.handleFileUpload and FileUploadSection.handleUpload               *)

\* clears the module-level registry before a run
resetGlobalUniquePhones == {}

NoToast == [title |-> "", variant |-> "", error |-> NoError,
            totalProcessed |-> 0, duplicatesRemoved |-> 0]

SuccessToast(statistics) ==
    [title |-> "File Processed Successfully", variant |-> "default",
     error |-> NoError,
     totalProcessed |-> statistics.totalProcessed,
     duplicatesRemoved |-> statistics.duplicatesRemoved]

ErrorToast(error) ==
    [title |-> "Error Processing File", variant |-> "destructive",
     error |-> error, totalProcessed |-> 0, duplicatesRemoved |-> 0]

\* what the await gave, without the model's view of the Set
promiseOf(outcome) ==
    [state |-> outcome.state, error |-> outcome.error,
     cleanedData |-> outcome.cleanedData, originalData |-> outcome.originalData,
     statistics |-> outcome.statistics]

NotSettled == [promiseOf(Rejected(NoError, {})) EXCEPT !.state = "none"]

\* the button is disabled while isProcessing; handleFileUpload up to its await
\* mutant: the Process File button is never disabled
uploadAlwaysEnabled == TRUE

\* the Process File button: disabled={isProcessing}
uploadEnabled == ~isProcessing

handleUpload ==
    /\ uploadEnabled
    /\ isProcessing' = TRUE
    /\ globalUniquePhones' = resetGlobalUniquePhones
    /\ reader' = "loading"
    /\ runs' = runs + 1
    /\ UNCHANGED <<selectedFile, settled, previous, contacts, originalContacts,
                   stats, toast, uniquePhones, phoneType, phone, cleaned>>

\* handleFileUpload after the await: try body, catch, finally
afterAwait(outcome) ==
    /\ settled' = promiseOf(outcome)
    /\ previous' = settled
    /\ uniquePhones' = outcome.uniquePhones
    /\ IF outcome.state = "resolved"
       THEN /\ contacts' = outcome.cleanedData
            /\ originalContacts' = outcome.originalData
            /\ stats' = outcome.statistics
            /\ toast' = SuccessToast(outcome.statistics)
       ELSE /\ toast' = ErrorToast(outcome.error)
            /\ UNCHANGED <<contacts, originalContacts, stats>>
    /\ isProcessing' = FALSE
    /\ runs' = runs - 1
    /\ reader' = IF runs - 1 = 0 THEN "idle" ELSE "loading"
    /\ UNCHANGED <<selectedFile, globalUniquePhones, phoneType, phone, cleaned>>

readerOnload ==
    /\ reader = "loading"
    /\ afterAwait(processExcelFile(selectedFile))

readerOnerror ==
    /\ reader = "loading"
    /\ afterAwait(Rejected(ReadError, uniquePhones))

----------------------------------------------------------------------------
(* Inputs                                                                  *)

MaxRows == 3

NumX == <<"0", "7", "7", "1", "2", "3", "4">>

NumY == <<"0", "8", "8", "1", "2", "3", "4">>

\* phone cells of the sheet
RawPhones ==
    { NumX,
      <<"7", "7", "-", "1", "2", "3", "4">>,
      NumY,
      NumX \o <<",", " ">> \o NumY,
      NumY \o <<"/">> \o NumX,
      <<"a", "b", "c">> }

PhoneCells ==
    {[absent |-> FALSE, text |-> t] : t \in RawPhones}
        \cup {[absent |-> TRUE, text |-> <<>>]}

\* the keys of the first sheet row
ColumnSets ==
    { {"CID", "AID", "Name", "Phone"},
      {"CID", "AID", "Customer Name", "Phone"},
      {"AID", "Name", "Phone"},
      {"CID", "Name", "Phone"},
      {"CID", "AID", "Phone"},
      {"CID", "AID", "Name"} }

mkRow(i, cols, cell) ==
    [c \in (IF cell.absent THEN cols \ {"Phone"} ELSE cols) |->
        CASE c = "Phone" -> cell.text
          [] c = "CID"   -> i
          [] c = "AID"   -> 100 + i
          [] OTHER       -> <<"n">>]

Sheets ==
    {[corrupt |-> FALSE, rows |-> [i \in 1..n |-> mkRow(i, cols, cells[i])]] :
        cols \in ColumnSets, n \in 0..MaxRows, cells \in [1..MaxRows -> PhoneCells]}

Files == Sheets \cup {[corrupt |-> TRUE, rows |-> <<>>]}

MaxPrefix == 5

MaxTail == 8

MaxParts == 4

PrefixDigits == {"0", "5", "8"}

SeqsUpTo(S, n) == UNION {[1..k -> S] : k \in 0..n}

\* digit strings: every prefix over PrefixDigits, then a run of sevens
DigitStrings ==
    {p \o [i \in 1..k |-> "7"] : p \in SeqsUpTo(PrefixDigits, MaxPrefix), k \in 0..MaxTail}

Parts ==
    { NumX, NumY, <<"8", "8">>, <<",">>, <<"/">>, <<" ">>, <<"@">>,
      <<"T", "e", "l", "e", "g", "r", "a", "m">>, <<"u">> }

RECURSIVE concat(_)
concat(parts) == IF parts = <<>> THEN <<>> ELSE Head(parts) \o concat(Tail(parts))

\* free-form fields: up to MaxParts parts written one after the other
PartStrings == {concat(ps) : ps \in SeqsUpTo(Parts, MaxParts)}

\* 077 123 456
SpacedNumber == <<"0", "7", "7", " ", "1", "2", "3", " ", "4", "5", "6">>

\* fields written out in full
ExampleStrings ==
    { SpacedNumber \o <<",", " ">> \o SpacedNumber,
      <<"0", "0", "7", "7", "1", "2", "3", "4", "5", "6">>,
      <<"8", "5", "5", "7", "7", "1", "2", "3", "4", "5", "6">>,
      <<"8", "5", "5", "1", "2", "3", "4", "5">>,
      NumX \o <<",">> \o NumY \o <<"/">> \o NumX \o <<",">> \o NumY,
      <<"a", "b", "c">> }

CleanInputs == DigitStrings \cup PartStrings \cup ExampleStrings

----------------------------------------------------------------------------
(* Specifications                                                          *)

NotCalled == [called |-> FALSE, value |-> <<>>]

AppInit(file) ==
    /\ selectedFile = file
    /\ isProcessing = FALSE
    /\ reader = "idle"
    /\ runs = 0
    /\ settled = NotSettled
    /\ previous = NotSettled
    /\ contacts = <<>>
    /\ originalContacts = <<>>
    /\ stats = NoStatistics
    /\ toast = NoToast
    /\ uniquePhones = {}
    /\ globalUniquePhones = {}

Init ==
    /\ \E file \in Files : AppInit(file)
    /\ phoneType = "string"
    /\ phone = <<>>
    /\ cleaned = NotCalled

Next == handleUpload \/ readerOnload \/ readerOnerror

Spec == Init /\ [][Next]_vars

\* a direct call of cleanPhoneNumber on one raw phone field
callCleanPhoneNumber ==
    /\ ~cleaned.called
    /\ cleaned' = [called |-> TRUE, value |-> cleanPhoneNumberCall(phoneType, phone)]
    /\ UNCHANGED <<phoneType, phone, appVars>>

\* values that are no string
NonStringTypes == {"null", "undefined", "number"}

InitClean ==
    /\ AppInit([corrupt |-> FALSE, rows |-> <<>>])
    /\ \/ phoneType = "string" /\ phone \in CleanInputs
       \/ phoneType \in NonStringTypes /\ phone = <<>>
    /\ cleaned = NotCalled

NextClean == callCleanPhoneNumber

SpecClean == InitClean /\ [][NextClean]_vars

\* file runs and direct calls of cleanPhoneNumber side by side
InitBoth ==
    \/ /\ \E file \in Files : AppInit(file)
       /\ phoneType \in {"string", "null"}
       /\ phone = <<>>
       /\ cleaned = NotCalled
    \/ InitClean

NextBoth == handleUpload \/ readerOnload \/ readerOnerror \/ callCleanPhoneNumber

SpecBoth == InitBoth /\ [][NextBoth]_vars

----------------------------------------------------------------------------
(* Vocabulary of the properties                                            *)

\* the last run returned a result for the selected file
Resolved == reader = "idle" /\ settled.state = "resolved"

inputRows == selectedFile.rows

RowIds == 1..Len(inputRows)

\* the normalized phone field of input row i
cleanedPhoneOfRow(i) == cleanPhoneNumber(phoneToString(inputRows[i]))

canonicalNumbers(i) == numbersOf(cleanedPhoneOfRow(i))

seenBefore(i) == UNION {canonicalNumbers(j) : j \in 1..(i - 1)}

\* rows carry their position as CID
kept(i) == \E k \in 1..Len(settled.cleanedData) : settled.cleanedData[k]["CID"] = i

singleNumber(i, n) == canonicalNumbers(i) = {n}

firstRowColumns == DOMAIN inputRows[1]

DisplayNameColumns == {"Name", "Customer Name"}

requiredColumnAbsent ==
    \/ "CID" \notin firstRowColumns
    \/ "AID" \notin firstRowColumns
    \/ "Phone" \notin firstRowColumns
    \/ DisplayNameColumns \cap firstRowColumns = {}

\* a run of processExcelFile on a readable sheet with rows has settled
SheetRunSettled ==
    /\ reader = "idle"
    /\ settled.state \in {"resolved", "rejected"}
    /\ settled.error.kind # "readError"
    /\ ~selectedFile.corrupt
    /\ Len(inputRows) > 0

----------------------------------------------------------------------------
(* Properties of a file-processing run (specification Spec)                *)

\* C1: a record with at least one canonical number, all of whose numbers
\* occur in the normalized phone fields of earlier records of the run, is
\* dropped from the kept records.
C1_SubsumedRecordDropped ==
    Resolved =>
        \A i \in RowIds :
            (canonicalNumbers(i) # {} /\ canonicalNumbers(i) \subseteq seenBefore(i))
                => ~kept(i)

\* C2: a record with at least one canonical number that occurs in no earlier
\* record of the run is kept, whatever its other numbers are.
C2_NewNumberKept ==
    Resolved =>
        \A i \in RowIds :
            (\E n \in canonicalNumbers(i) : n \notin seenBefore(i)) => kept(i)

\* a kept record with one number seen before and one new number
C2_Witness ==
    /\ Resolved
    /\ \E i \in RowIds :
          /\ \E n \in canonicalNumbers(i) : n \in seenBefore(i)
          /\ \E n \in canonicalNumbers(i) : n \notin seenBefore(i)
          /\ kept(i)

\* C3: among the records whose phone fields normalize to the same single
\* canonical number, exactly the earliest is kept; for two such records A, B
\* the result is A alone and duplicatesRemoved is 1.
C3_FirstSeenWins ==
    Resolved =>
        /\ \A i \in RowIds : \A n \in canonicalNumbers(i) :
              singleNumber(i, n) =>
                  (kept(i) <=> ~\E j \in 1..(i - 1) : singleNumber(j, n))
        /\ (Len(inputRows) = 2
               /\ \E n \in canonicalNumbers(1) :
                      singleNumber(1, n) /\ singleNumber(2, n))
              => /\ Len(settled.cleanedData) = 1
                 /\ settled.cleanedData[1]["CID"] = 1
                 /\ settled.statistics.duplicatesRemoved = 1

\* two records written differently that normalize to one number: A kept, B dropped
C3_Witness ==
    /\ Resolved
    /\ Len(inputRows) = 2
    /\ phoneToString(inputRows[1]) # phoneToString(inputRows[2])
    /\ \E n \in canonicalNumbers(1) : singleNumber(1, n) /\ singleNumber(2, n)
    /\ kept(1) /\ ~kept(2)
    /\ settled.statistics.duplicatesRemoved = 1

\* C4: a record whose normalized phone field is empty is kept at every
\* position, is never among the records counted in duplicatesRemoved, and
\* adds nothing to the registry.
C4_EmptyPhoneKept ==
    Resolved =>
        /\ \A i \in RowIds : cleanedPhoneOfRow(i) = <<>> => kept(i)
        /\ settled.statistics.duplicatesRemoved =
               Cardinality({i \in RowIds : cleanedPhoneOfRow(i) # <<>> /\ ~kept(i)})
        /\ <<>> \notin uniquePhones
        /\ uniquePhones = {cleanedPhoneOfRow(i) : i \in RowIds} \ {<<>>}

\* three empty-phone records in a row, all kept
C4_Witness ==
    /\ Resolved
    /\ Len(inputRows) = 3
    /\ \A i \in RowIds : cleanedPhoneOfRow(i) = <<>> /\ kept(i)
    /\ settled.statistics.duplicatesRemoved = 0

\* C5: totalProcessed is the number of input rows, invalidPhones the number
\* of rows whose cleaned phone is empty, duplicatesRemoved the number of
\* input rows minus the number of kept records.
C5_Statistics ==
    Resolved =>
        /\ settled.statistics.totalProcessed = Len(inputRows)
        /\ settled.statistics.invalidPhones =
               Cardinality({i \in RowIds : cleanedPhoneOfRow(i) = <<>>})
        /\ settled.statistics.duplicatesRemoved =
               Len(inputRows) - Len(settled.cleanedData)
        /\ stats = settled.statistics

\* a run with an invalid phone and a removed duplicate
C5_Witness ==
    /\ Resolved
    /\ settled.statistics.totalProcessed = 3
    /\ settled.statistics.invalidPhones = 1
    /\ settled.statistics.duplicatesRemoved = 1

\* C6: two consecutive runs on the same rows return the same kept records
\* and the same statistics.
C6_RunsAgree ==
    (reader = "idle" /\ settled.state = "resolved" /\ previous.state = "resolved")
        => /\ settled.cleanedData = previous.cleanedData
           /\ settled.statistics = previous.statistics
           /\ settled = previous

\* a second run, right after a first that registered numbers and removed a duplicate
C6_Witness ==
    /\ Resolved
    /\ previous.state = "resolved"
    /\ uniquePhones # {}
    /\ settled.statistics.duplicatesRemoved > 0
    /\ Len(settled.cleanedData) > 0

\* C7: with a required column absent from the first row the run is rejected
\* with an error naming an absent required column, and returns no kept
\* records and no statistics; nothing was deduplicated or shown.
C7_MissingColumnRejected ==
    (SheetRunSettled /\ requiredColumnAbsent) =>
        /\ settled.state = "rejected"
        /\ settled.error.kind = "missingColumn"
        /\ settled.error.column \notin firstRowColumns
        /\ settled.error.column \in {"CID", "AID", "Phone"} \cup DisplayNameColumns
        /\ settled.cleanedData = <<>>
        /\ settled.statistics = NoStatistics
        /\ uniquePhones = {}
        /\ contacts = <<>> /\ originalContacts = <<>> /\ stats = NoStatistics
        /\ toast = ErrorToast(settled.error)

\* a sheet with three rows and no Phone key in its first row was rejected
C7_Witness ==
    /\ SheetRunSettled
    /\ Len(inputRows) = 3
    /\ "Phone" \notin firstRowColumns
    /\ \E i \in RowIds : "Phone" \in DOMAIN inputRows[i]
    /\ settled.error = MissingColumnError("Phone")

\* C8: a first row with CID, AID, Phone and the display name under either
\* spelling (Name or Customer Name) passes validation and is processed.
C8_EitherNameSpellingAccepted ==
    (/\ SheetRunSettled
     /\ {"CID", "AID", "Phone"} \subseteq firstRowColumns
     /\ DisplayNameColumns \cap firstRowColumns # {})
        => settled.state = "resolved"

----------------------------------------------------------------------------
(* Properties of cleanPhoneNumber (specification SpecClean)                *)

isDigitString(s) == \A i \in 1..Len(s) : s[i] \in DigitChars

\* a digit string of 7 to 11 digits whose first digit is 0
localDigitString(s) ==
    /\ isDigitString(s)
    /\ Len(s) >= 7 /\ Len(s) <= 11
    /\ s[1] = "0"

toLowerCase(s) ==
    [i \in 1..Len(s) |->
        CASE s[i] = "T" -> "t" [] s[i] = "E" -> "e" [] s[i] = "L" -> "l"
          [] s[i] = "G" -> "g" [] s[i] = "R" -> "r" [] s[i] = "A" -> "a"
          [] s[i] = "M" -> "m" [] OTHER -> s[i]]

includes(s, sub) ==
    \E i \in 1..(Len(s) - Len(sub) + 1) : SubSeq(s, i, i + Len(sub) - 1) = sub

\* a segment marked as a handle: it has an @ or spells telegram in any case
isHandleSegment(seg) ==
    \/ includes(seg, <<"@">>)
    \/ includes(toLowerCase(seg), <<"t", "e", "l", "e", "g", "r", "a", "m">>)

notHandleSegment(seg) == ~isHandleSegment(seg)

\* the field with its handle segments taken out
withoutHandleSegments(p) ==
    join(SelectSeq(split(p, Delimiters), notHandleSegment), <<",">>)

\* C9 as stated: for every digit string d of length 7 to 11 whose first
\* digit is 0, cleanPhoneNumber(d) is d followed by the terminator.
C9_LocalNumberUnchanged ==
    (cleaned.called /\ localDigitString(phone))
        => cleaned.value = phone \o Terminator

\* C9 as amended: for every digit string d of length 7 to 11 that starts
\* with 0 but not with 00, cleanPhoneNumber(d) is d followed by the
\* terminator.
C9_LocalNumberWithoutDoubleZeroUnchanged ==
    (cleaned.called /\ localDigitString(phone) /\ phone[2] # "0")
        => cleaned.value = phone \o Terminator

\* an 11-digit number 0855... came back unchanged
C9_Witness ==
    /\ cleaned.called
    /\ localDigitString(phone)
    /\ Len(phone) = 11
    /\ startsWith(phone, <<"0", "8", "5", "5">>)
    /\ cleaned.value = phone \o Terminator

\* C10: a comma- or slash-delimited segment with an @ or with telegram in
\* any case contributes no number, whatever digits it holds; the output is
\* that of the other segments alone.
C10_HandleSegmentsSkipped ==
    cleaned.called => cleaned.value = cleanPhoneNumber(withoutHandleSegments(phone))

\* the numbers written in a cleaned Phone field, in the order written
numberListOf(cleanedPhone) ==
    LET tokens   == split(cleanedPhone, {" "})
        stripped == [i \in 1..Len(tokens) |->
                        SelectSeq(tokens[i], LAMBDA c : c \notin {";"})]
    IN  SelectSeq(stripped, NonEmpty)

\* the accepted numbers of the segments of a field, in field order, repeats included
acceptedNumbers(p) ==
    LET segments == phoneNumbersOf(p)
    IN  SelectSeq([i \in 1..Len(segments) |-> cleanNumber(segments[i])], NonEmpty)

firstIndexOf(xs, x) == CHOOSE i \in 1..Len(xs) : xs[i] = x /\ \A k \in 1..(i - 1) : xs[k] # x

\* C11: the numbers in the output of cleanPhoneNumber are pairwise distinct
\* and stand in the order of their first occurrence in the field; the field
\* '077 123 456, 077 123 456' gives one canonical number, once.
C11_DistinctInFirstSeenOrder ==
    cleaned.called =>
        LET out      == numberListOf(cleaned.value)
            accepted == acceptedNumbers(phone)
        IN  /\ \A i, j \in 1..Len(out) : i # j => out[i] # out[j]
            /\ {out[i] : i \in 1..Len(out)} = {accepted[k] : k \in 1..Len(accepted)}
            /\ \A i, j \in 1..Len(out) :
                  i < j => firstIndexOf(accepted, out[i]) < firstIndexOf(accepted, out[j])
            /\ phone = SpacedNumber \o <<",", " ">> \o SpacedNumber
                  => cleaned.value = <<"0", "7", "7", "1", "2", "3", "4", "5", "6", ";">>

\* X,Y/X,Y came back as X; Y;
C11_Witness ==
    /\ cleaned.called
    /\ phone = NumX \o <<",">> \o NumY \o <<"/">> \o NumX \o <<",">> \o NumY
    /\ numberListOf(cleaned.value) = <<NumX, NumY>>

\* a digit-only string of 7 to 11 digits that begins with 0
isCanonicalNumber(n) ==
    /\ \A i \in 1..Len(n) : n[i] \in DigitChars
    /\ Len(n) >= 7 /\ Len(n) <= 11
    /\ n[1] = "0"

\* C12: every number in the output of cleanPhoneNumber is digits only, 7 to
\* 11 digits long and begins with 0; the output is those numbers, each with
\* its terminator, joined by single spaces.
C12_OutputIsCanonical ==
    cleaned.called =>
        LET out == numberListOf(cleaned.value)
        IN  /\ \A i \in 1..Len(out) : isCanonicalNumber(out[i])
            /\ cleaned.value =
                   join([i \in 1..Len(out) |-> out[i] \o Terminator], <<" ">>)

\* a 10-digit input without a leading 0 came back as 11 digits
C12_Witness ==
    /\ cleaned.called
    /\ phone = <<"5", "5", "7", "7", "7", "7", "7", "7", "7", "7">>
    /\ cleaned.value = <<"0">> \o phone \o Terminator

----------------------------------------------------------------------------
(* Further properties of a file-processing run (specification Spec)        *)

\* C13: the original rows returned by a run are the input rows: same
\* length, same order, same keys and values, the raw Phone included, also
\* for rows that removeDuplicates drops.
C13_OriginalRowsPreserved ==
    Resolved =>
        /\ Len(settled.originalData) = Len(inputRows)
        /\ \A i \in RowIds :
              /\ DOMAIN settled.originalData[i] = DOMAIN inputRows[i]
              /\ \A c \in DOMAIN inputRows[i] :
                    settled.originalData[i][c] = inputRows[i][c]
        /\ originalContacts = settled.originalData

\* a run that dropped a row and rewrote a Phone, with the raw rows returned
C13_Witness ==
    /\ Resolved
    /\ Len(inputRows) = 3
    /\ ~kept(3)
    /\ \A i \in RowIds : "Phone" \in DOMAIN inputRows[i]
                            /\ cleanedPhoneOfRow(i) # inputRows[i]["Phone"]
    /\ \A i \in RowIds : originalContacts[i]["Phone"] = inputRows[i]["Phone"]

----------------------------------------------------------------------------
(* Runs and direct calls together (specification SpecBoth)                 *)

hasNoDigit(s) == \A i \in 1..Len(s) : s[i] \notin DigitChars

\* the Phone cell of input row i is missing or holds no digit
rowWithoutNumber(i) ==
    "Phone" \notin DOMAIN inputRows[i] \/ hasNoDigit(inputRows[i]["Phone"])

keptWithEmptyPhone ==
    {k \in 1..Len(settled.cleanedData) : settled.cleanedData[k]["Phone"] = <<>>}

\* C14: cleanPhoneNumber returns '' for the empty string, for a value that
\* is no string and for a string without a digit; a sheet with such cells
\* is processed without a processing error, and each such record is counted
\* once in invalidPhones.
C14_InvalidInputGivesEmpty ==
    /\ (cleaned.called /\ (phoneType # "string" \/ hasNoDigit(phone)))
          => cleaned.value = <<>>
    /\ (reader = "idle" /\ ~selectedFile.corrupt)
          => settled.error.kind # "processFailed"
    /\ Resolved =>
          /\ \A i \in RowIds : rowWithoutNumber(i) =>
                \E k \in keptWithEmptyPhone : settled.cleanedData[k]["CID"] = i
          /\ settled.statistics.invalidPhones = Cardinality(keptWithEmptyPhone)

\* a sheet with a missing Phone, the Phone abc and a valid Phone gave
\* invalidPhones = 2, and cleanPhoneNumber(null) gave ''
C14_Witness ==
    /\ Resolved
    /\ Len(inputRows) = 3
    /\ "Phone" \notin DOMAIN inputRows[2]
    /\ phoneToString(inputRows[3]) = <<"a", "b", "c">>
    /\ settled.statistics.invalidPhones = 2
    /\ Len(settled.cleanedData) = 3
    /\ phoneType = "null" /\ cleaned.called /\ cleaned.value = <<>>

----------------------------------------------------------------------------
(* Further properties of cleanPhoneNumber (specification SpecClean)        *)

\* every white space of the field read as one more delimiter
whitespaceAsDelimiter(p) ==
    [i \in 1..Len(p) |-> IF p[i] \in WhiteSpace THEN "," ELSE p[i]]

hasHandleSegment(p) ==
    LET segments == split(p, Delimiters)
    IN  \E i \in 1..Len(segments) : isHandleSegment(segments[i])

\* C15: a segment is split on white space into tokens and each token is
\* cleaned and validated on its own, so the output is that of the field
\* with every white space read as a delimiter; digits of different tokens
\* are never joined into one number.
C15_TokensCleanedSeparately ==
    (cleaned.called /\ phoneType = "string" /\ ~hasHandleSegment(phone))
        => cleaned.value = cleanPhoneNumber(whitespaceAsDelimiter(phone))

dropFirst(d, n) == SubSeq(d, n + 1, Len(d))

beginsWith(d, p) == Len(d) >= Len(p) /\ \A i \in 1..Len(p) : d[i] = p[i]

\* the prefix steps in the stated order, on a digit string
afterPrefixSteps(d) ==
    LET a == IF beginsWith(d, <<"0", "0">>) THEN dropFirst(d, 2) ELSE d
        b == IF Len(a) > 8 /\ beginsWith(a, <<"8", "5", "5">>) THEN dropFirst(a, 3) ELSE a
    IN  IF beginsWith(b, <<"0">>) THEN b ELSE <<"0">> \o b

\* C16: on a digit string the steps are, in this order: remove a leading
\* 00; if what is left is longer than 8 digits and starts with 855, remove
\* the 855; prepend 0 if it does not start with 0; accept lengths 7 to 11.
\* 0077123456 and 85577123456 give 077123456, and a string of 8 or fewer
\* digits starting with 855 keeps its 855.
C16_PrefixStepsInOrder ==
    (cleaned.called /\ phoneType = "string" /\ isDigitString(phone) /\ Len(phone) > 0)
        => /\ cleaned.value =
                 (IF Len(afterPrefixSteps(phone)) >= 7 /\ Len(afterPrefixSteps(phone)) <= 11
                  THEN afterPrefixSteps(phone) \o <<";">> ELSE <<>>)
           /\ phone \in {<<"0", "0", "7", "7", "1", "2", "3", "4", "5", "6">>,
                         <<"8", "5", "5", "7", "7", "1", "2", "3", "4", "5", "6">>}
                 => cleaned.value = <<"0", "7", "7", "1", "2", "3", "4", "5", "6", ";">>
           /\ (Len(phone) <= 8 /\ Len(phone) >= 6 /\ beginsWith(phone, <<"8", "5", "5">>))
                 => cleaned.value = <<"0">> \o phone \o <<";">>

\* 00855 followed by sevens: the 00 went first, then the 855, then a 0 was put in front
C16_Witness ==
    /\ cleaned.called
    /\ phone = <<"0", "0", "8", "5", "5", "7", "7", "7", "7", "7", "7">>
    /\ cleaned.value = <<"0", "7", "7", "7", "7", "7", "7", ";">>

----------------------------------------------------------------------------
(* One run at a time (specification Spec)                                  *)

\* C17: at most one file-processing run is in progress at any time, a run
\* is in progress exactly while isProcessing is true, and isProcessing is
\* false again once the run has resolved or rejected.
C17_OneRunAtATime ==
    /\ runs \in {0, 1}
    /\ isProcessing <=> runs = 1
    /\ reader = "loading" <=> runs = 1
    /\ ~uploadEnabled => runs = 1
    /\ (settled.state \in {"resolved", "rejected"} /\ runs = 0) => ~isProcessing

\* a new run in progress after a run that was rejected
C17_Witness ==
    /\ runs = 1
    /\ isProcessing
    /\ settled.state = "rejected"
    /\ previous.state = "resolved"

====
